---- MODULE Spec2Model ----
(***************************************************************************)
(* Bootstrap layer of the bw agent: keyring derivation (agent.Config),     *)
(* cluster join (cmdopts.Peering.Join) and consensus initialisation with   *)
(* the passive reset callback (cmdopts.Peering.Raft).                      *)
(***************************************************************************)
EXTENDS Integers, Sequences, FiniteSets, TLC

\* ------------------------------------------------------------------ bounds
MaxTokens == 3        \* longest ClusterTokens list explored
MaxCalls == 2         \* Keyring invocations per configuration
MaxBootstrap == 1     \* longest --bootstrap-static-addresses list explored
MaxMinimumNodes == 2  \* largest MinimumNodes explored
MaxCallerOptions == 1 \* longest list of extra protocol options passed to Raft
MaxLog == 1           \* log entries the engine writes between resets
MaxSnapshots == 1     \* snapshots the engine takes between resets
MaxResets == 2        \* passive resets per run

\* ------------------------------------------------------------ input domains
TokenValues == {"new", "old", "stale"}
ServerNames == {"prod-cluster", "dev"}
Addresses == {"10.0.0.1:2001"}

RECURSIVE SeqsUpTo(_, _)
SeqsUpTo(S, n) ==
    IF n = 0 THEN {<<>>}
    ELSE LET shorter == SeqsUpTo(S, n - 1)
         IN  shorter \cup {Append(q, x) : q \in shorter, x \in S}

NoErr == "nil"
Nil == [kind |-> "nil"]

VARIABLES
    config,     \* agent.Config: ClusterTokens, ServerName, MinimumNodes
    rings,      \* results of the Config.Keyring calls made so far
    peering,    \* cmdopts.Peering: Bootstrap, DNSEnabled, AWSEnabled, GCloudEnabled
    env,        \* outcome of the credential collaborators used by p2ppeering
    snap,       \* the persisted peer snapshot (peering.File)
    joinerErr,  \* error produced by the cluster join itself
    joined,     \* what Peering.Join did: called, sources handed over, err returned
    callerOptions, \* options ...raftutil.ProtocolOption passed to Peering.Raft
    raftState,  \* UNINITIALIZED, RUNNING, RESET-IN-PROGRESS or FATAL
    protocol,   \* the raftutil.Protocol returned by Peering.Raft
    raftErr,    \* the error returned by Peering.Raft
    fs,         \* contents of the consensus storage directory <Root>/raft.d
    reset,      \* the passive reset callback: position, locals, return values
    stores,     \* the log store and snapshot store the engine currently holds
    resets,     \* number of times the engine invoked the reset callback
    results,    \* outcomes of the successful resets run back to back
    everFailed  \* some step of some passive reset has failed

keyringVars == <<rings>>
joinVars == <<peering, env, snap, joinerErr, joined>>
raftVars == <<callerOptions, raftState, protocol, raftErr, fs, reset, stores, resets,
              results, everFailed>>
vars == <<config, rings, peering, env, snap, joinerErr, joined, callerOptions, raftState,
          protocol, raftErr, fs, reset, stores, resets, results, everFailed>>

\* ================================================================ Keyring
\* []byte(token): the raw bytes of a string.
Bytes(s) == [kind |-> "raw", of |-> s]

\* sha256.Sum256: a one-way 256 bit digest of its input.
Sum256(b) == [kind |-> "sha256", of |-> b, size |-> 32]

\* memberlist.NewKeyring(keys, primaryKey): the key material that crosses
\* into the gossip layer.
NewKeyring(keys, primaryKey) == [keys |-> keys, primary |-> primaryKey]

\* for _, token := range t.ClusterTokens { tokens = append(tokens, hashed[:]) }
RECURSIVE HashTokens(_, _)
HashTokens(clusterTokens, tokens) ==
    IF clusterTokens = <<>> THEN tokens
    ELSE HashTokens(Tail(clusterTokens),
                    Append(tokens, Sum256(Bytes(Head(clusterTokens)))))

\* mutant: the default case hands over every hashed token as a legacy key.
KeyringAllLegacy(t) ==
    LET tokens == HashTokens(t.ClusterTokens, <<>>)
    IN  CASE Len(tokens) = 0 -> NewKeyring(<<>>, Sum256(Bytes(t.ServerName)))
          [] Len(tokens) = 1 -> NewKeyring(<<>>, tokens[1])
          [] OTHER -> NewKeyring(tokens, tokens[1])

\* mutant: the single token case skips the hash.
KeyringRawSingle(t) ==
    LET tokens == HashTokens(t.ClusterTokens, <<>>)
    IN  CASE Len(tokens) = 0 -> NewKeyring(<<>>, Sum256(Bytes(t.ServerName)))
          [] Len(tokens) = 1 -> NewKeyring(<<>>, Bytes(t.ClusterTokens[1]))
          [] OTHER -> NewKeyring(Tail(tokens), tokens[1])

Keyring(t) ==
    LET tokens == HashTokens(t.ClusterTokens, <<>>)
    IN  CASE Len(tokens) = 0 -> NewKeyring(<<>>, Sum256(Bytes(t.ServerName)))
          [] Len(tokens) = 1 -> NewKeyring(<<>>, tokens[1])
          [] OTHER -> NewKeyring(Tail(tokens), tokens[1])

\* ================================================================ Join
\* peering.NewStaticTCP(addrs...): a fixed list; with no address, the no-op source.
NewStaticTCP(addrs) == [kind |-> "static", peers |-> addrs]

NewDNS(c) == [kind |-> "dns", peers |-> <<c.ServerName>>]
AWSAutoscaling(c) == [kind |-> "aws", peers |-> <<>>]
GCloudTargetPool(c) == [kind |-> "gcloud", peers |-> <<>>]

p2ppeering(c, e) ==
    IF ~e.signer THEN [s |-> Nil, err |-> "signer"]
    ELSE IF ~e.tls THEN [s |-> Nil, err |-> "tls"]
    ELSE IF ~e.dialer THEN [s |-> Nil, err |-> "dialer"]
    ELSE [s |-> [kind |-> "p2p", peers |-> <<c.ServerName>>], err |-> NoErr]

\* commandutils.ClusterJoin(ctx, config, c, sources...): err is the outcome of
\* the join against the cluster.
ClusterJoin(sources, err) == [called |-> TRUE, sources |-> sources, err |-> err]

\* mutant: a failed p2ppeering aborts the join.
JoinFailFast(t, c, e, s, err) ==
    LET p2p == p2ppeering(c, e)
    IN  IF p2p.err # NoErr
        THEN [called |-> FALSE, sources |-> <<>>, err |-> p2p.err]
        ELSE ClusterJoin(<<NewStaticTCP(t.Bootstrap), p2p.s,
                IF t.AWSEnabled THEN AWSAutoscaling(c) ELSE NewStaticTCP(<<>>),
                IF t.GCloudEnabled THEN GCloudTargetPool(c) ELSE NewStaticTCP(<<>>),
                s,
                IF t.DNSEnabled THEN NewDNS(c) ELSE NewStaticTCP(<<>>)>>, err)

Join(t, c, e, s, err) ==
    LET clipeers == NewStaticTCP(t.Bootstrap)
        p2p == p2ppeering(c, e)
        p2ppeers == IF p2p.err # NoErr THEN NewStaticTCP(<<>>) ELSE p2p.s
        dnspeers == IF t.DNSEnabled THEN NewDNS(c) ELSE NewStaticTCP(<<>>)
        awspeers == IF t.AWSEnabled THEN AWSAutoscaling(c) ELSE NewStaticTCP(<<>>)
        gcloudpeers == IF t.GCloudEnabled THEN GCloudTargetPool(c) ELSE NewStaticTCP(<<>>)
    IN  ClusterJoin(<<clipeers, p2ppeers, awspeers, gcloudpeers, s, dnspeers>>, err)

\* ================================================================ Raft
SnapshotRetain == 5

\* raftutil.ProtocolOption values.
ProtocolOptionQuorumMinimum(n) == [opt |-> "QuorumMinimum", v |-> n]
ProtocolOptionEnableSingleNode(b) == [opt |-> "EnableSingleNode", v |-> b]
ProtocolOptionPassiveReset == [opt |-> "PassiveReset", v |-> "callback"]
ProtocolOptionTransport == [opt |-> "Transport", v |-> "tcp"]

\* mutant: single node mode only below one node.
DefaultOptionsStrict(conf) ==
    <<ProtocolOptionQuorumMinimum(conf.MinimumNodes),
      ProtocolOptionEnableSingleNode(conf.MinimumNodes < 1),
      ProtocolOptionPassiveReset>>

\* defaultOptions := []raftutil.ProtocolOption{...}
DefaultOptions(conf) ==
    <<ProtocolOptionQuorumMinimum(conf.MinimumNodes),
      ProtocolOptionEnableSingleNode(conf.MinimumNodes <= 1),
      ProtocolOptionPassiveReset>>

\* append(defaultOptions, options...)
RaftOptions(conf, options) == DefaultOptions(conf) \o options

ZeroProtocol == [minQuorum |-> 0, enableSingleNode |-> FALSE, passiveReset |-> "none",
                 transport |-> "none"]

ApplyOption(p, o) ==
    CASE o.opt = "QuorumMinimum" -> [p EXCEPT !.minQuorum = o.v]
      [] o.opt = "EnableSingleNode" -> [p EXCEPT !.enableSingleNode = o.v]
      [] o.opt = "PassiveReset" -> [p EXCEPT !.passiveReset = o.v]
      [] OTHER -> [p EXCEPT !.transport = o.v]

\* raftutil.NewProtocol: the options are applied to the protocol one after
\* the other, a later option overriding an earlier one.
RECURSIVE NewProtocol(_, _)
NewProtocol(p, options) ==
    IF options = <<>> THEN p
    ELSE NewProtocol(ApplyOption(p, Head(options)), Tail(options))

\* ---- the storage directory
Absent == [exists |-> FALSE, stateBin |-> FALSE, entries |-> 0, snapshotsDir |-> FALSE,
           snapshots |-> 0]
EmptyDir == [Absent EXCEPT !.exists = TRUE]

\* os.RemoveAll(dir): the outcomes <<directory afterwards, error>>. A failed
\* removal leaves the directory, with or without the log file.
RemoveAll(d) ==
    {<<Absent, NoErr>>}
    \cup (IF d.exists
          THEN {<<d, "remove">>, <<[d EXCEPT !.stateBin = FALSE, !.entries = 0], "remove">>}
          ELSE {})

\* os.MkdirAll(dir, 0700): succeeds on an existing directory.
MkdirAll(d) ==
    IF d.exists THEN {<<d, NoErr>>}
    ELSE {<<[d EXCEPT !.exists = TRUE], NoErr>>, <<d, "mkdir">>}

\* commandutils.RaftStoreFilepath(dir/state.bin): <<directory, store, error>>.
RaftStoreFilepath(d) ==
    {<<d, Nil, "logstore">>}
    \cup (IF d.exists
          THEN {<<[d EXCEPT !.stateBin = TRUE],
                  [kind |-> "logstore", path |-> "state.bin", entries |-> d.entries],
                  NoErr>>}
          ELSE {})

\* raft.NewFileSnapshotStore(dir, retain, os.Stderr): <<directory, store, error>>.
NewFileSnapshotStore(d, retain) ==
    {<<d, Nil, "snapstore">>}
    \cup (IF d.exists
          THEN {<<[d EXCEPT !.snapshotsDir = TRUE],
                  [kind |-> "snapstore", retain |-> retain, snapshots |-> d.snapshots],
                  NoErr>>}
          ELSE {})

\* errorsx.Compact(errs...): the first error that is not nil.
Compact(e1, e2) == IF e1 # NoErr THEN e1 ELSE e2

\* mutant: the result of the removal is dropped.
ResetDirErrIgnoreRemove(rmErr, mkErr) == mkErr

\* mutant: the check of the directory error is inverted.
ResetDirErrInverted(rmErr, mkErr) ==
    IF Compact(rmErr, mkErr) = NoErr THEN "reset" ELSE NoErr

\* err = errorsx.Compact(os.RemoveAll(dir), os.MkdirAll(dir, 0700))
ResetDirErr(rmErr, mkErr) == Compact(rmErr, mkErr)

\* mutant: the directory is created before it is removed.
ResetNextMkdirFirst(pc, err) ==
    CASE pc = "entry" -> "mkdir"
      [] pc = "mkdir" -> "remove"
      [] pc = "remove" -> IF err # NoErr THEN "returned" ELSE "logstore"
      [] pc = "logstore" -> IF err # NoErr THEN "returned" ELSE "snapstore"
      [] OTHER -> "returned"

\* mutant: the log store is opened before the directory is wiped.
ResetNextStoreFirst(pc, err) ==
    CASE pc = "entry" -> "logstore"
      [] pc = "logstore" -> IF err # NoErr THEN "returned" ELSE "remove"
      [] pc = "remove" -> "mkdir"
      [] pc = "mkdir" -> IF err # NoErr THEN "returned" ELSE "snapstore"
      [] OTHER -> "returned"

\* Control flow of the callback: both arguments of errorsx.Compact are
\* evaluated before the error is looked at, each later step returns on error.
ResetNext(pc, err) ==
    CASE pc = "entry" -> "remove"
      [] pc = "remove" -> "mkdir"
      [] pc = "mkdir" -> IF err # NoErr THEN "returned" ELSE "logstore"
      [] pc = "logstore" -> IF err # NoErr THEN "returned" ELSE "snapstore"
      [] OTHER -> "returned"

ResetIdle == [pc |-> "idle", rmErr |-> NoErr, mkErr |-> NoErr, s |-> Nil, ss |-> Nil,
              err |-> NoErr, trace |-> <<>>, from |-> Absent]
NoStores == [s |-> Nil, ss |-> Nil]

RaftIdle ==
    /\ callerOptions = <<>>
    /\ raftState = "UNINITIALIZED"
    /\ protocol = ZeroProtocol
    /\ raftErr = NoErr
    /\ fs = Absent
    /\ reset = ResetIdle
    /\ stores = NoStores
    /\ resets = 0
    /\ results = <<>>
    /\ everFailed = FALSE

NotJoined == [called |-> FALSE, sources |-> <<>>, err |-> NoErr]
IdlePeering == [Bootstrap |-> <<>>, DNSEnabled |-> FALSE, AWSEnabled |-> FALSE,
                GCloudEnabled |-> FALSE]
IdleEnv == [signer |-> TRUE, tls |-> TRUE, dialer |-> TRUE]
IdleSnap == [kind |-> "snapshot", peers |-> <<>>]

\* ------------------------------------------------- specification: keyring
InitKeyring ==
    /\ config \in [ClusterTokens : SeqsUpTo(TokenValues, MaxTokens),
                   ServerName : ServerNames, MinimumNodes : {3}]
    /\ rings = <<>>
    /\ peering = IdlePeering
    /\ env = IdleEnv
    /\ snap = IdleSnap
    /\ joinerErr = NoErr
    /\ joined = NotJoined
    /\ RaftIdle

KeyringCall ==
    /\ Len(rings) < MaxCalls
    /\ rings' = Append(rings, Keyring(config))
    /\ UNCHANGED <<config, joinVars, raftVars>>

NextKeyring == KeyringCall

SpecKeyring == InitKeyring /\ [][NextKeyring]_vars

\* ---------------------------------------------------- specification: join
InitJoin ==
    /\ config \in [ClusterTokens : {<<>>}, ServerName : ServerNames, MinimumNodes : {3}]
    /\ rings = <<>>
    /\ peering \in [Bootstrap : SeqsUpTo(Addresses, MaxBootstrap), DNSEnabled : BOOLEAN,
                    AWSEnabled : BOOLEAN, GCloudEnabled : BOOLEAN]
    /\ env \in [signer : BOOLEAN, tls : BOOLEAN, dialer : BOOLEAN]
    /\ snap \in [kind : {"snapshot"}, peers : SeqsUpTo(Addresses, 1)]
    /\ joinerErr = NoErr
    /\ joined = NotJoined
    /\ RaftIdle

JoinCall ==
    /\ ~joined.called
    /\ joined.err = NoErr
    /\ \E err \in {NoErr, "unreachable"} :
        /\ joinerErr' = err
        /\ joined' = Join(peering, config, env, snap, err)
    /\ UNCHANGED <<config, rings, peering, env, snap, raftVars>>

NextJoin == JoinCall

SpecJoin == InitJoin /\ [][NextJoin]_vars

\* ---------------------------------------------------- specification: raft
CallerOptionValues ==
    {ProtocolOptionTransport, ProtocolOptionQuorumMinimum(1),
     ProtocolOptionEnableSingleNode(TRUE), ProtocolOptionEnableSingleNode(FALSE)}

\* Directories a previous run of the agent can have left behind.
LeftoverDirs ==
    {Absent, EmptyDir,
     [exists |-> TRUE, stateBin |-> TRUE, entries |-> MaxLog, snapshotsDir |-> TRUE,
      snapshots |-> MaxSnapshots]}

InitRaft ==
    /\ config \in [ClusterTokens : {<<>>}, ServerName : {"dev"},
                   MinimumNodes : 0..MaxMinimumNodes]
    /\ rings = <<>>
    /\ peering = IdlePeering
    /\ env = IdleEnv
    /\ snap = IdleSnap
    /\ joinerErr = NoErr
    /\ joined = NotJoined
    /\ callerOptions \in SeqsUpTo(CallerOptionValues, MaxCallerOptions)
    /\ raftState = "UNINITIALIZED"
    /\ protocol = ZeroProtocol
    /\ raftErr = NoErr
    /\ fs \in LeftoverDirs
    /\ reset = ResetIdle
    /\ stores = NoStores
    /\ resets = 0
    /\ results = <<>>
    /\ everFailed = FALSE

\* Peering.Raft: create the directory, then start the protocol.
Raft ==
    /\ raftState = "UNINITIALIZED"
    /\ raftErr = NoErr
    /\ \E mk \in MkdirAll(fs) :
        /\ fs' = mk[1]
        /\ IF mk[2] # NoErr
           THEN /\ raftErr' = mk[2]
                /\ UNCHANGED <<protocol, raftState>>
           ELSE /\ protocol' = NewProtocol(ZeroProtocol, RaftOptions(config, callerOptions))
                /\ raftState' = "RUNNING"
                /\ UNCHANGED raftErr
    /\ UNCHANGED <<config, keyringVars, joinVars, callerOptions, reset, stores, resets,
                   results, everFailed>>

\* The engine appends to the replicated log while it runs.
EngineAppend ==
    /\ raftState = "RUNNING"
    /\ fs.entries < MaxLog
    /\ fs' = [fs EXCEPT !.stateBin = TRUE, !.entries = @ + 1]
    /\ results' = <<>>
    /\ UNCHANGED <<config, keyringVars, joinVars, callerOptions, raftState, protocol,
                   raftErr, reset, stores, resets, everFailed>>

\* The engine takes a snapshot while it runs.
EngineSnapshot ==
    /\ raftState = "RUNNING"
    /\ fs.snapshots < MaxSnapshots
    /\ fs' = [fs EXCEPT !.snapshotsDir = TRUE, !.snapshots = @ + 1]
    /\ results' = <<>>
    /\ UNCHANGED <<config, keyringVars, joinVars, callerOptions, raftState, protocol,
                   raftErr, reset, stores, resets, everFailed>>

\* The engine finds its storage unusable and invokes the reset callback.
DetectCorruption ==
    /\ raftState = "RUNNING"
    /\ protocol.passiveReset = "callback"
    /\ resets < MaxResets
    /\ raftState' = "RESET-IN-PROGRESS"
    /\ resets' = resets + 1
    /\ reset' = [ResetIdle EXCEPT !.pc = ResetNext("entry", NoErr), !.from = fs]
    /\ stores' = NoStores
    /\ UNCHANGED <<config, keyringVars, joinVars, callerOptions, protocol, raftErr, fs,
                   results, everFailed>>

ResetUnchanged ==
    UNCHANGED <<config, keyringVars, joinVars, callerOptions, raftState, protocol,
                raftErr, stores, resets, results>>

\* os.RemoveAll(dir), first argument of errorsx.Compact. The error is
\* compacted once both directory calls have returned.
ResetRemoveAll ==
    /\ reset.pc = "remove"
    /\ \E rm \in RemoveAll(fs) :
        /\ fs' = rm[1]
        /\ LET err == IF "mkdir" \in {reset.trace[i] : i \in 1..Len(reset.trace)}
                      THEN ResetDirErr(rm[2], reset.mkErr) ELSE NoErr
           IN  reset' = [reset EXCEPT !.rmErr = rm[2],
                                      !.err = err,
                                      !.trace = Append(@, "remove"),
                                      !.pc = ResetNext("remove", err)]
        /\ everFailed' = (everFailed \/ rm[2] # NoErr)
    /\ ResetUnchanged

\* os.MkdirAll(dir, 0700), second argument of errorsx.Compact, and the check
\* of the compacted error.
ResetMkdirAll ==
    /\ reset.pc = "mkdir"
    /\ \E mk \in MkdirAll(fs) :
        /\ fs' = mk[1]
        /\ LET err == IF "remove" \in {reset.trace[i] : i \in 1..Len(reset.trace)}
                      THEN ResetDirErr(reset.rmErr, mk[2]) ELSE NoErr
           IN  reset' = [reset EXCEPT !.mkErr = mk[2],
                                      !.err = err,
                                      !.trace = Append(@, "mkdir"),
                                      !.pc = ResetNext("mkdir", err)]
        /\ everFailed' = (everFailed \/ mk[2] # NoErr)
    /\ ResetUnchanged

\* s, err = commandutils.RaftStoreFilepath(filepath.Join(dir, "state.bin"))
ResetLogStore ==
    /\ reset.pc = "logstore"
    /\ \E r \in RaftStoreFilepath(fs) :
        /\ fs' = r[1]
        /\ reset' = [reset EXCEPT !.s = r[2],
                                  !.err = r[3],
                                  !.trace = Append(@, "logstore"),
                                  !.pc = ResetNext("logstore", r[3])]
        /\ everFailed' = (everFailed \/ r[3] # NoErr)
    /\ ResetUnchanged

\* ss, err = raft.NewFileSnapshotStore(dir, 5, os.Stderr)
ResetSnapshotStore ==
    /\ reset.pc = "snapstore"
    /\ \E r \in NewFileSnapshotStore(fs, SnapshotRetain) :
        /\ fs' = r[1]
        /\ reset' = [reset EXCEPT !.ss = r[2],
                                  !.err = r[3],
                                  !.trace = Append(@, "snapstore"),
                                  !.pc = ResetNext("snapstore", r[3])]
        /\ everFailed' = (everFailed \/ r[3] # NoErr)
    /\ ResetUnchanged

\* The engine takes the callback's return values: it resumes on the fresh
\* stores, or stops for good when the reset failed.
EngineResume ==
    /\ raftState = "RESET-IN-PROGRESS"
    /\ reset.pc = "returned"
    /\ IF reset.err = NoErr
       THEN /\ raftState' = "RUNNING"
            /\ stores' = [s |-> reset.s, ss |-> reset.ss]
            /\ results' = Append(results, [from |-> reset.from, dir |-> fs,
                                           s |-> reset.s, ss |-> reset.ss])
       ELSE /\ raftState' = "FATAL"
            /\ UNCHANGED <<stores, results>>
    /\ reset' = [reset EXCEPT !.pc = "idle"]
    /\ UNCHANGED <<config, keyringVars, joinVars, callerOptions, protocol, raftErr, fs,
                   resets, everFailed>>

NextRaft ==
    \/ Raft
    \/ EngineAppend
    \/ EngineSnapshot
    \/ DetectCorruption
    \/ ResetRemoveAll
    \/ ResetMkdirAll
    \/ ResetLogStore
    \/ ResetSnapshotStore
    \/ EngineResume

SpecRaft == InitRaft /\ [][NextRaft]_vars

\* The callback runs to its return and the engine acts on it.
LiveSpecRaft ==
    /\ SpecRaft
    /\ WF_vars(ResetRemoveAll)
    /\ WF_vars(ResetMkdirAll)
    /\ WF_vars(ResetLogStore)
    /\ WF_vars(ResetSnapshotStore)
    /\ WF_vars(EngineResume)

\* ------------------------------------------------------------------ claims
DiscoveryKinds == {"p2p", "aws", "gcloud", "dns"}
Elems(q) == {q[i] : i \in 1..Len(q)}

\* C1: the sources handed to the cluster joiner start with the static
\* addresses, and the persisted snapshot comes before every discovery source.
C1_SnapshotBeforeDiscovery ==
    joined.called =>
        /\ joined.sources[1] = NewStaticTCP(peering.Bootstrap)
        /\ \A i, j \in 1..Len(joined.sources) :
            (joined.sources[i].kind = "snapshot"
             /\ joined.sources[j].kind \in DiscoveryKinds) => i < j

\* C2: Join always reaches the cluster join, whatever sources are disabled
\* or cannot be built; such a source is handed over as the empty static
\* source, and Join returns the error of the cluster join and nothing else.
C2_JoinDegradesGracefully ==
    (joined.called \/ joined.err # NoErr) =>
        LET kinds == {src.kind : src \in Elems(joined.sources)}
            p2pBuilt == env.signer /\ env.tls /\ env.dialer
            noops == Cardinality({i \in 1..Len(joined.sources) :
                                    joined.sources[i] = NewStaticTCP(<<>>)})
            missing == Cardinality({f \in {"dns", "aws", "gcloud"} :
                            \/ f = "dns" /\ ~peering.DNSEnabled
                            \/ f = "aws" /\ ~peering.AWSEnabled
                            \/ f = "gcloud" /\ ~peering.GCloudEnabled})
                       + (IF p2pBuilt THEN 0 ELSE 1)
                       + (IF peering.Bootstrap = <<>> THEN 1 ELSE 0)
        IN  /\ joined.called
            /\ joined.err = joinerErr
            /\ Len(joined.sources) = 6
            /\ Nil \notin Elems(joined.sources)
            /\ ("dns" \in kinds) = peering.DNSEnabled
            /\ ("aws" \in kinds) = peering.AWSEnabled
            /\ ("gcloud" \in kinds) = peering.GCloudEnabled
            /\ ("p2p" \in kinds) = p2pBuilt
            /\ noops = missing

C2_Witness ==
    /\ joined.called
    /\ ~env.signer
    /\ ~peering.DNSEnabled
    /\ peering.AWSEnabled
    /\ joinerErr = "unreachable"

\* C3: the keyring is a function of the tokens and the server name: with
\* n >= 1 tokens the primary key is the hash of the first token and the
\* legacy keys are the hashes of the n-1 others in order; with no token the
\* primary key is the hash of the server name and there is no legacy key.
C3_KeyringDerivation ==
    \A c \in 1..Len(rings) :
        LET n == Len(config.ClusterTokens)
            ring == rings[c]
        IN  /\ n >= 1 =>
                /\ ring.primary = Sum256(Bytes(config.ClusterTokens[1]))
                /\ Len(ring.keys) = n - 1
                /\ \A k \in 1..(n - 1) :
                    ring.keys[k] = Sum256(Bytes(config.ClusterTokens[k + 1]))
            /\ n = 0 =>
                /\ ring.primary = Sum256(Bytes(config.ServerName))
                /\ ring.keys = <<>>
            /\ \A d \in 1..Len(rings) : rings[d] = ring

C3_Witness ==
    /\ Len(rings) = MaxCalls
    /\ Len(config.ClusterTokens) >= 2
    /\ config.ClusterTokens[1] # config.ClusterTokens[2]

\* C4: every key handed to the keyring constructor is the digest of a
\* configured token or of the server name; none is a raw token.
C4_OnlyHashesCross ==
    \A c \in 1..Len(rings) :
        LET keys == {rings[c].primary} \cup Elems(rings[c].keys)
            secrets == Elems(config.ClusterTokens)
        IN  \A key \in keys :
                /\ key.kind = "sha256"
                /\ key \in {Sum256(Bytes(t)) : t \in secrets \cup {config.ServerName}}
                /\ key \notin {Bytes(t) : t \in secrets}

C4_Witness ==
    /\ Len(rings) >= 1
    /\ Len(config.ClusterTokens) = 1

OverridesPolicy(o) == o.opt \in {"QuorumMinimum", "EnableSingleNode"}

C6_FailedResetIsFatal ==
    /\ everFailed => raftState \in {"RESET-IN-PROGRESS", "FATAL"}
    /\ (everFailed /\ reset.pc = "returned") => reset.err # NoErr

C6_Witness ==
    /\ raftState = "FATAL"
    /\ reset.rmErr # NoErr
    /\ reset.mkErr = NoErr

\* C7: two successful resets in a row end in the same directory and stores:
\* an existing directory without data, an empty log store and an empty
\* snapshot store that retains 5 snapshots.
C7_ResetIdempotent ==
    \A i \in 1..Len(results) :
        /\ results[i].dir.exists
        /\ results[i].dir.entries = 0
        /\ results[i].dir.snapshots = 0
        /\ results[i].ss.retain <= 5
        /\ i > 1 =>
            /\ results[i].dir = results[i - 1].dir
            /\ results[i].s = results[i - 1].s
            /\ results[i].ss = results[i - 1].ss

C7_Witness ==
    /\ Len(results) = 2
    /\ results[1].from.entries > 0
    /\ results[1].from.snapshots > 0

FreshStores ==
    /\ stores.s = [kind |-> "logstore", path |-> "state.bin", entries |-> 0]
    /\ stores.ss = [kind |-> "snapstore", retain |-> SnapshotRetain, snapshots |-> 0]

\* C8: the initializer is always in one of its four states, it is FATAL only
\* after a failed reset step, and a reset in progress leads to RUNNING on
\* fresh empty stores unless one of its steps fails.
C8_RecoversFromCorruption ==
    /\ [](raftState \in {"UNINITIALIZED", "RUNNING", "RESET-IN-PROGRESS", "FATAL"})
    /\ [](raftState = "FATAL" => everFailed)
    /\ (raftState = "RESET-IN-PROGRESS")
         ~> ((raftState = "RUNNING" /\ FreshStores) \/ (raftState = "FATAL" /\ everFailed))

C8_Witness ==
    /\ raftState = "RUNNING"
    /\ resets = MaxResets
    /\ FreshStores
    /\ ~everFailed

ResetOrder == <<"remove", "mkdir", "logstore", "snapstore">>

\* C9: the steps of a reset run one after the other in the order remove,
\* recreate, log store, snapshot store; a store exists only after both
\* directory steps are over.
C9_ResetStrictlyOrdered ==
    /\ Len(reset.trace) <= Len(ResetOrder)
    /\ \A i \in 1..Len(reset.trace) : reset.trace[i] = ResetOrder[i]
    /\ (reset.s # Nil \/ reset.ss # Nil) => Len(reset.trace) >= 3

C9_Witness ==
    /\ reset.trace = ResetOrder
    /\ reset.ss # Nil

\* C10: the callback stops at the first failing step: no recreation after a
\* failed removal, no store after a failed directory step, and no store
\* handed back together with an error.
C10_StopsAtFirstFailure ==
    /\ reset.rmErr # NoErr => "mkdir" \notin Elems(reset.trace)
    /\ (reset.rmErr # NoErr \/ reset.mkErr # NoErr) => (reset.s = Nil /\ reset.ss = Nil)
    /\ (reset.pc = "returned" /\ reset.err # NoErr) => (reset.s = Nil /\ reset.ss = Nil)
====
